---- MODULE Spec2Model ----
(***************************************************************************)
(* Bayesian Decomposition (methods/factorization/bd.py): the run loop of   *)
(* Bd.factorize, the stopping test Bd._is_satisfied, the Gibbs sweep of    *)
(* Bd.update and the clamping of Bd._randr.                                *)
(*                                                                         *)
(* Floating point values are integers: the finite values are small        *)
(* integers, and PosInf, NegInf and NaN are three codes far outside their  *)
(* range with the IEEE comparisons of IsNan, IsInf and Lt.  The            *)
(* random draws (np.random.rand, np.random.gamma) are nondeterministic     *)
(* choices; matrices are functions over 0-based index pairs.               *)
(***************************************************************************)
EXTENDS Integers, Sequences, FiniteSets, TLC

\* ------------------------------------------------------------ bounds
MaxSigma == 2      \* sigma is drawn from 1..MaxSigma
MaxRank == 2       \* rank is 1..MaxRank
MaxRun == 2        \* n_run is 1..MaxRun
MaxIter == 2       \* option max_iter is 0 (unset)..MaxIter
MaxSkip == 1       \* option skip is 0..MaxSkip
MaxStride == 2     \* option stride is 1..MaxStride

\* ------------------------------------------------------------ constants
DefaultMaxIter == 30

\* The target matrix V, here 1 x 1.
V == << <<2>> >>
Rows == Len(V)
Cols == Len(V[1])

\* ------------------------------------------------------------ floats
PosInf == 1000
NegInf == 0 - PosInf
NaN == 2000
IsNan(x) == x = NaN
IsInf(x) == x = PosInf \/ x = NegInf
Lt(x, y) == ~IsNan(x) /\ ~IsNan(y) /\ x < y
IsFinite(x) == ~IsNan(x) /\ ~IsInf(x)
\* What the seeder returns, what the inversion of _randr can produce before
\* the clamps, and what the inverse Gamma draw returns.
SeedVals == {0, 1}
RawVals == {NaN, NegInf, PosInf, 0 - 1, 0, 1}
SigmaVals == 1..MaxSigma

\* ------------------------------------------------------------ helpers
RECURSIVE SumSet(_, _)
SumSet(f, S) ==
    IF S = {} THEN 0
    ELSE LET x == CHOOSE y \in S : TRUE IN f[x] + SumSet(f, S \ {x})

Idx(r, c) == (0..(r - 1)) \X (0..(c - 1))
Range(s) == {s[i] : i \in DOMAIN s}

\* Python's xrange(a, b) as a sequence.
xrange(a, b) == IF b > a THEN [i \in 1..(b - a) |-> a + i - 1] ELSE << >>

VARIABLES params, pc, run, W, H, sigma, max_iter, tracker, pobj, cobj, iter,
          left, n, n_iter, final_obj, sweeps, log, trace

vars == <<params, pc, run, W, H, sigma, max_iter, tracker, pobj, cobj, iter,
          left, n, n_iter, final_obj, sweeps, log, trace>>

rank == params.rank

\* dot(W, H) and the objective: the squared Frobenius norm of V - W H.
dot(A, B) == [p \in Idx(Rows, Cols) |->
                SumSet([k \in 0..(rank - 1) |-> A[p[1], k] * B[k, p[2]]], 0..(rank - 1))]
objective(A, B) ==
    LET P == dot(A, B)
    IN SumSet([p \in Idx(Rows, Cols) |->
                 (V[p[1] + 1][p[2] + 1] - P[p]) * (V[p[1] + 1][p[2] + 1] - P[p])],
              Idx(Rows, Cols))

\* ------------------------------------------------------------ Bd._is_satisfied
\* Variants of the stopping test: without the max_iter test, without the
\* min_residuals test, and stopping on a worse objective only.
is_satisfied_uncapped(p, c, it) ==
    IF params.min_residuals # 0 /\ it > 0 /\ c - p <= params.min_residuals THEN FALSE
    ELSE IF it > 0 /\ c >= p THEN FALSE
    ELSE TRUE
is_satisfied_no_residuals(p, c, it) ==
    IF max_iter # 0 /\ max_iter < it THEN FALSE
    ELSE IF it > 0 /\ c >= p THEN FALSE
    ELSE TRUE
is_satisfied_strict(p, c, it) ==
    IF max_iter # 0 /\ max_iter < it THEN FALSE
    ELSE IF params.min_residuals # 0 /\ it > 0 /\ c - p < params.min_residuals THEN FALSE
    ELSE IF it > 0 /\ c > p THEN FALSE
    ELSE TRUE
is_satisfied(p, c, it) ==
    IF max_iter # 0 /\ max_iter < it THEN FALSE
    ELSE IF params.min_residuals # 0 /\ it > 0 /\ c - p <= params.min_residuals THEN FALSE
    ELSE IF it > 0 /\ c >= p THEN FALSE
    ELSE TRUE

\* ------------------------------------------------------------ Bd._randr
\* The three clamps applied to the raw draw x before it is returned.
\* Variant: the clamp of the infinite values left out.
clamp_no_isinf(x) ==
    LET x1 == IF IsNan(x) THEN 0 ELSE x
        x2 == IF Lt(x1, 0) THEN 0 ELSE x1
    IN x2
clamp(x) ==
    LET x1 == IF IsNan(x) THEN 0 ELSE x
        x2 == IF Lt(x1, 0) THEN 0 ELSE x1
        x3 == IF IsInf(x2) THEN 0 ELSE x2
    IN x3
randr(x) == [j \in DOMAIN x |-> clamp(x[j])]

\* ------------------------------------------------------------ Bd.update
\* The number of sweeps of one call update(iter).
nsweeps(it) == params.skip * (IF it = 0 THEN 1 ELSE 0)
               + params.stride * (IF it > 0 THEN 1 ELSE 0)

\* The index list nn of the residual of column (row) k.
nn(k) == xrange(0, k - 1) \o xrange(k, rank)

Wcol(A, c) == [j \in 0..(Rows - 1) |-> A[j, c]]
Hrow(B, r) == [j \in 0..(Cols - 1) |-> B[r, j]]

Ev(kind, k, idx, sig, wrote) ==
    [kind |-> kind, n |-> k, nn |-> idx, sigma |-> sig, wrote |-> wrote]

\* ------------------------------------------------------------ configurations
Masks(r) == [0..(r - 1) -> BOOLEAN]
NoMask(r) == {[i \in 0..(r - 1) |-> FALSE]}

\* The option sets: every combination of the given values, with every freeze
\* mask when frozen is TRUE and no frozen column or row otherwise.
ParamSet(ranks, runs, iters, resids, convs, cbs, tracks, skips, strides, frozen, nsigmas, sigmas) ==
    UNION { { [rank |-> r, n_run |-> nr, max_iter |-> mi, min_residuals |-> mr,
               test_conv |-> tc, callback |-> cb, track |-> tr, sigma |-> sg,
               skip |-> sk, stride |-> st, n_w |-> nw, n_h |-> nh, n_sigma |-> ns] :
              nr \in runs, mi \in iters, mr \in resids, tc \in convs,
              cb \in cbs, tr \in tracks, sk \in skips, st \in strides,
              nw \in (IF frozen THEN Masks(r) ELSE NoMask(r)),
              nh \in (IF frozen THEN Masks(r) ELSE NoMask(r)),
              ns \in nsigmas, sg \in sigmas } : r \in ranks }

\* The sweep: every rank, skip, freeze mask and n_sigma, one run.
Params ==
    ParamSet(1..MaxRank, {1}, {1}, {0}, {0}, {FALSE}, {FALSE}, 0..MaxSkip, {1},
             TRUE, BOOLEAN, {1})
\* The sampling loop of one run: every max_iter, min_residuals, test_conv, skip
\* and stride, at rank 2.
LoopParams ==
    ParamSet({2}, {1}, 0..MaxIter, {0, 1}, {0, 2}, {FALSE}, {FALSE}, 0..MaxSkip,
             1..MaxStride, FALSE, BOOLEAN, {1})
\* The runs of factorize: every n_run, callback, track and initial sigma, at
\* rank 1.
RunsParams ==
    ParamSet({1}, 1..MaxRun, {1}, {0}, {0}, BOOLEAN, BOOLEAN, 0..MaxSkip,
             1..MaxStride, FALSE, {FALSE}, SigmaVals)

Empty == [p \in {} |-> 0]

\* The object after construction, before factorize is called.
Constructed(P) ==
    /\ params \in P
    /\ pc = "factorize"
    /\ run = 0
    /\ W = Empty /\ H = Empty
    /\ sigma = 0 /\ max_iter = params.max_iter /\ tracker = FALSE
    /\ pobj = 0 /\ cobj = 0 /\ iter = 0 /\ left = 0 /\ n = 0
    /\ n_iter = 0 - 1 /\ final_obj = 0 - 1
    /\ sweeps = 0 /\ log = << >> /\ trace = << >>

Init == Constructed(Params)
LoopInit == Constructed(LoopParams)
RunsInit == Constructed(RunsParams)

\* Variant: the tracker created whenever track is set.
SetParams_track_any_run ==
    /\ pc = "factorize"
    /\ max_iter' = IF max_iter = 0 THEN DefaultMaxIter ELSE max_iter
    /\ sigma' = params.sigma
    /\ tracker' = params.track
    /\ pc' = "seed"
    /\ UNCHANGED <<params, run, W, H, pobj, cobj, iter, left, n, n_iter, final_obj,
                   sweeps, log, trace>>

\* ------------------------------------------------------------ Bd._set_params
SetParams ==
    /\ pc = "factorize"
    /\ max_iter' = IF max_iter = 0 THEN DefaultMaxIter ELSE max_iter
    /\ sigma' = params.sigma
    /\ tracker' = (params.track /\ params.n_run > 1)
    /\ pc' = "seed"
    /\ UNCHANGED <<params, run, W, H, pobj, cobj, iter, left, n, n_iter, final_obj,
                   sweeps, log, trace>>

\* ------------------------------------------------------------ Bd.factorize
\* for _ in xrange(n_run): seed, pobj = cobj = objective(), iter = 0
Seed ==
    /\ pc = "seed"
    /\ \E w \in [Idx(Rows, rank) -> SeedVals], h \in [Idx(rank, Cols) -> SeedVals] :
         /\ W' = w /\ H' = h
         /\ pobj' = objective(w, h) /\ cobj' = objective(w, h)
    /\ iter' = 0
    /\ sweeps' = 0 /\ trace' = << >>
    /\ log' = Append(log, <<"seed", run>>)
    /\ pc' = "while"
    /\ UNCHANGED <<params, run, sigma, max_iter, tracker, left, n, n_iter, final_obj>>

\* while self._is_satisfied(pobj, cobj, iter): pobj = cobj; self.update(iter)
While ==
    /\ pc = "while"
    /\ IF is_satisfied(pobj, cobj, iter)
       THEN /\ pobj' = cobj
            /\ left' = nsweeps(iter)
            /\ pc' = "update"
            /\ log' = log
       ELSE /\ pc' = "callback"
            /\ log' = Append(log, <<"stop", run>>)
            /\ UNCHANGED <<pobj, left>>
    /\ UNCHANGED <<params, run, W, H, sigma, max_iter, tracker, cobj, iter, n, n_iter,
                   final_obj, sweeps, trace>>

\* One more pass of the loop of update: C and D are those of the current H.
BeginSweep ==
    /\ pc = "update" /\ left > 0
    /\ n' = 0
    /\ trace' = <<Ev("begin", 0, << >>, sigma, << >>)>>
    /\ pc' = "W"
    /\ UNCHANGED <<params, run, W, H, sigma, max_iter, tracker, pobj, cobj, iter, left,
                   n_iter, final_obj, sweeps, log>>

\* Variant: the freeze mask n_w not consulted.
UpdateW_unmasked ==
    /\ pc = "W"
    /\ \E x \in [0..(Rows - 1) -> RawVals] :
         LET temp == randr(x)
         IN /\ W' = [p \in DOMAIN W |-> IF p[2] = n THEN temp[p[1]] ELSE W[p]]
            /\ trace' = Append(trace, Ev("W", n, nn(n), sigma, temp))
    /\ IF n + 1 < rank THEN n' = n + 1 /\ pc' = pc ELSE n' = 0 /\ pc' = "sigma"
    /\ UNCHANGED <<params, run, H, sigma, max_iter, tracker, pobj, cobj, iter, left,
                   n_iter, final_obj, sweeps, log>>

\* Variant: the update of sigma inside the loop over the columns of W.
UpdateW_sigma_inside ==
    /\ pc = "W"
    /\ IF ~params.n_w[n]
       THEN \E x \in [0..(Rows - 1) -> RawVals] :
              LET temp == randr(x)
              IN /\ W' = [p \in DOMAIN W |-> IF p[2] = n THEN temp[p[1]] ELSE W[p]]
                 /\ \E s \in SigmaVals :
                      /\ sigma' = s
                      /\ trace' = Append(Append(trace, Ev("W", n, nn(n), sigma, temp)),
                                          Ev("sigma", 0, << >>, s, << >>))
       ELSE UNCHANGED <<W, trace, sigma>>
    /\ IF n + 1 < rank THEN n' = n + 1 /\ pc' = pc ELSE n' = 0 /\ pc' = "H"
    /\ UNCHANGED <<params, run, H, max_iter, tracker, pobj, cobj, iter, left,
                   n_iter, final_obj, sweeps, log>>

\* Column n of the basis matrix.
UpdateW ==
    /\ pc = "W"
    /\ IF ~params.n_w[n]
       THEN \E x \in [0..(Rows - 1) -> RawVals] :
              LET temp == randr(x)
              IN /\ W' = [p \in DOMAIN W |-> IF p[2] = n THEN temp[p[1]] ELSE W[p]]
                 /\ trace' = Append(trace,
                       Ev("W", n, nn(n), sigma, temp))
       ELSE UNCHANGED <<W, trace>>
    /\ IF n + 1 < rank THEN n' = n + 1 /\ pc' = pc ELSE n' = 0 /\ pc' = "sigma"
    /\ UNCHANGED <<params, run, H, sigma, max_iter, tracker, pobj, cobj, iter, left,
                   n_iter, final_obj, sweeps, log>>

\* The noise variance.
UpdateSigma ==
    /\ pc = "sigma"
    /\ IF ~params.n_sigma
       THEN \E s \in SigmaVals :
              /\ sigma' = s
              /\ trace' = Append(trace, Ev("sigma", 0, << >>, s, << >>))
       ELSE UNCHANGED <<sigma, trace>>
    /\ pc' = "H"
    /\ UNCHANGED <<params, run, W, H, max_iter, tracker, pobj, cobj, iter, left, n,
                   n_iter, final_obj, sweeps, log>>

\* Row n of the mixture matrix; after the last row the pass is over.
UpdateH ==
    /\ pc = "H"
    /\ IF ~params.n_h[n]
       THEN \E x \in [0..(Cols - 1) -> RawVals] :
              LET temp == randr(x)
              IN /\ H' = [p \in DOMAIN H |-> IF p[1] = n THEN temp[p[2]] ELSE H[p]]
                 /\ trace' = Append(trace,
                       Ev("H", n, nn(n), sigma, temp))
       ELSE UNCHANGED <<H, trace>>
    /\ IF n + 1 < rank
       THEN n' = n + 1 /\ UNCHANGED <<pc, left, sweeps>>
       ELSE n' = 0 /\ pc' = "update" /\ left' = left - 1 /\ sweeps' = sweeps + 1
    /\ UNCHANGED <<params, run, W, sigma, max_iter, tracker, pobj, cobj, iter,
                   n_iter, final_obj, log>>

\* update returns: cobj = objective() if due, iter += 1
EndUpdate ==
    /\ pc = "update" /\ left = 0
    /\ cobj' = IF params.test_conv = 0 \/ iter % params.test_conv = 0
               THEN objective(W, H) ELSE cobj
    /\ iter' = iter + 1
    /\ trace' = << >>
    /\ pc' = "while"
    /\ UNCHANGED <<params, run, W, H, sigma, max_iter, tracker, pobj, left, n, n_iter,
                   final_obj, sweeps, log>>

\* if self.callback: final_obj = cobj; callback(Mf_fit(self))
Callback ==
    /\ pc = "callback"
    /\ IF params.callback
       THEN final_obj' = cobj /\ log' = Append(log, <<"callback", run>>)
       ELSE UNCHANGED <<final_obj, log>>
    /\ pc' = "tracker"
    /\ UNCHANGED <<params, run, W, H, sigma, max_iter, tracker, pobj, cobj, iter, left, n,
                   n_iter, sweeps, trace>>

\* if self.tracker != None: tracker.add(...); then the next run, or the end
TrackerAdd ==
    /\ pc = "tracker"
    /\ log' = IF tracker THEN Append(log, <<"add", run>>) ELSE log
    /\ run' = run + 1
    /\ pc' = IF run + 1 < params.n_run THEN "seed" ELSE "return"
    /\ UNCHANGED <<params, W, H, sigma, max_iter, tracker, pobj, cobj, iter, left, n,
                   n_iter, final_obj, sweeps, trace>>

\* Variant: n_iter = iter.
Return_iter ==
    /\ pc = "return"
    /\ n_iter' = iter
    /\ final_obj' = cobj
    /\ pc' = "done"
    /\ UNCHANGED <<params, run, W, H, sigma, max_iter, tracker, pobj, cobj, iter, left, n,
                   sweeps, log, trace>>

\* self.n_iter = iter - 1; self.final_obj = cobj; return Mf_fit(self)
Return ==
    /\ pc = "return"
    /\ n_iter' = iter - 1
    /\ final_obj' = cobj
    /\ pc' = "done"
    /\ UNCHANGED <<params, run, W, H, sigma, max_iter, tracker, pobj, cobj, iter, left, n,
                   sweeps, log, trace>>

Next ==
    \/ SetParams
    \/ Seed
    \/ While
    \/ BeginSweep
    \/ UpdateW
    \/ UpdateSigma
    \/ UpdateH
    \/ EndUpdate
    \/ Callback
    \/ TrackerAdd
    \/ Return

Spec == Init /\ [][Next]_vars
LoopSpec == LoopInit /\ [][Next]_vars
RunsSpec == RunsInit /\ [][Next]_vars
\* factorize is a sequential procedure that runs to completion: a step that
\* can be taken is taken.
FairLoopSpec == LoopInit /\ [][Next]_vars /\ WF_vars(Next)

\* ------------------------------------------------------------ properties
NonnegFinite(x) == IsFinite(x) /\ x >= 0
Kinds(k) == {i \in DOMAIN trace : trace[i].kind = k}
PastLoop == pc \in {"callback", "tracker", "return", "done"}
IsPrefix(s, t) == Len(s) <= Len(t) /\ \A i \in DOMAIN s : s[i] = t[i]

\* C1: once seeded with nonnegative finite matrices, every entry of W and of
\* H is nonnegative and neither NaN nor infinite in every state of every run,
\* and so is every value _randr has handed back in the current sweep.
C1_NonnegativeFinite ==
    /\ \A p \in DOMAIN W : NonnegFinite(W[p])
    /\ \A p \in DOMAIN H : NonnegFinite(H[p])
    /\ \A i \in Kinds("W") \cup Kinds("H") :
         \A j \in DOMAIN trace[i].wrote : NonnegFinite(trace[i].wrote[j])
\* A sweep is over in which a column of W and a row of H were resampled, with
\* a zero and a positive value among the values written.
C1_Witness ==
    /\ pc = "update" /\ sweeps >= 1
    /\ \E i \in Kinds("W") : trace[i].wrote[0] = 0
    /\ \E i \in Kinds("H") : trace[i].wrote[0] > 0

\* C2: within a run no step changes a frozen column of W, a frozen row of H
\* or, when n_sigma is set, sigma: they are the same before and after any
\* number of sweeps.
C2_Freezing ==
    [][(pc # "factorize" /\ pc # "seed") =>
         /\ \A i \in 0..(rank - 1) :
              /\ params.n_w[i] => Wcol(W', i) = Wcol(W, i)
              /\ params.n_h[i] => Hrow(H', i) = Hrow(H, i)
         /\ params.n_sigma => sigma' = sigma]_vars
\* A sweep is over in which column 0 of W, row 1 of H and sigma were frozen
\* while column 1 of W and row 0 of H were resampled.
C2_Witness ==
    /\ pc = "update" /\ sweeps >= 1 /\ rank = 2
    /\ params.n_w[0] /\ ~params.n_w[1] /\ ~params.n_h[0] /\ params.n_h[1]
    /\ params.n_sigma
    /\ \E i \in Kinds("W") : trace[i].n = 1
    /\ \E i \in Kinds("H") : trace[i].n = 0

\* C3 as stated: the sweeps of a run never exceed max_iter.
C3_SweepCap == sweeps <= max_iter
\* C3 as amended: factorize terminates, a run makes at most max_iter + 1 calls
\* of update and so at most skip + max_iter * stride sweeps.
C3_UpdateCap ==
    /\ [](iter <= max_iter + 1 /\ sweeps <= params.skip + max_iter * params.stride)
    /\ <>(pc = "done")
\* A run that was stopped by max_iter after more than max_iter sweeps.
C3_Witness ==
    /\ pc = "done" /\ iter = max_iter + 1
    /\ sweeps = params.skip + max_iter * params.stride /\ sweeps > max_iter

\* C4: the calls of the callback and of tracker.add are exactly those of the
\* expected log: per run, in this order, the seeding, the end of the sampling
\* loop, the callback when configured, tracker.add when track is set and
\* n_run > 1.
RunEvents(r) ==
    << <<"seed", r>>, <<"stop", r>> >>
    \o (IF params.callback THEN << <<"callback", r>> >> ELSE << >>)
    \o (IF params.track /\ params.n_run > 1 THEN << <<"add", r>> >> ELSE << >>)
RECURSIVE ExpectedLog(_)
ExpectedLog(k) == IF k = 0 THEN << >> ELSE ExpectedLog(k - 1) \o RunEvents(k - 1)
C4_OncePerRun ==
    /\ IsPrefix(log, ExpectedLog(params.n_run))
    /\ pc = "done" => log = ExpectedLog(params.n_run)
\* Two runs are over with the callback and the tracker called in each.
C4_Witness ==
    /\ pc = "done" /\ params.n_run = 2 /\ params.callback /\ tracker
    /\ log = << <<"seed", 0>>, <<"stop", 0>>, <<"callback", 0>>, <<"add", 0>>,
                <<"seed", 1>>, <<"stop", 1>>, <<"callback", 1>>, <<"add", 1>> >>

\* C5: at the start of every run, after seeding and before the first sweep, W
\* and H are the seeder's matrices and sigma is the configured initial value.
C5_RunsStartFresh ==
    (pc = "while" /\ iter = 0) =>
        /\ sigma = params.sigma
        /\ \A p \in DOMAIN W : W[p] \in SeedVals
        /\ \A p \in DOMAIN H : H[p] \in SeedVals
        /\ pobj = objective(W, H) /\ cobj = pobj

\* C6 as stated: the reported n_iter is the number of sweeps of the final run.
C6_ReportsSweeps == pc = "done" => n_iter = sweeps
\* C6 as amended: n_iter is the number of calls of update of the final run
\* less one, and the sweeps of the final run are skip + n_iter * stride.
C6_ReportsUpdates ==
    pc = "done" => n_iter = iter - 1 /\ sweeps = params.skip + n_iter * params.stride
\* The second of two runs made two calls of update, of skip and of 2 sweeps.
C6_Witness ==
    /\ pc = "done" /\ run = 2 /\ n_iter = 1 /\ params.stride = 2
    /\ sweeps = params.skip + 2 /\ sweeps # n_iter

\* C7: the index list nn of every column and row update is every index of
\* 0..rank-1 but the index n of the column or row itself.
C7_LeaveOneOut ==
    \A i \in Kinds("W") \cup Kinds("H") :
        Range(trace[i].nn) = (0..(rank - 1)) \ {trace[i].n}

C9_OneUpdate ==
    params.min_residuals > 0 => iter <= 1 /\ (PastLoop => iter = 1)
\* A run with min_residuals set stopped after one call that lowered the objective.
C9_Witness ==
    /\ params.min_residuals > 0 /\ pc = "callback" /\ iter = 1 /\ cobj < pobj

\* C10: with skip = 0 no sweep is executed, the loop is left after one
\* iteration with the objective it began with, and no step after the seeding
\* changes W, H or sigma.
C10_SkipZero ==
    /\ [](params.skip = 0 =>
            /\ sweeps = 0 /\ iter <= 1
            /\ pc \notin {"factorize", "seed"} => cobj = objective(W, H) /\ cobj = pobj
            /\ PastLoop => iter = 1)
    /\ [][(params.skip = 0 /\ pc \notin {"factorize", "seed"}) =>
            UNCHANGED <<W, H, sigma>>]_vars
\* A run with skip = 0, sigma free and no min_residuals has returned.
C10_Witness ==
    /\ params.skip = 0 /\ pc = "done" /\ iter = 1 /\ ~params.n_sigma
    /\ params.min_residuals = 0 /\ params.stride = 2 /\ final_obj = cobj
====
